---- MODULE Spec2Model ----
(***************************************************************************)
(* RFM customer segmentation (rfm_analysis_app.py).                        *)
(*                                                                         *)
(* Spec: the script, which runs from top to bottom on an upload.  One run  *)
(* over an uploaded table is the sequence of its statements:               *)
(*   AddRow               the CSV file the user prepares                   *)
(*   Upload               lines 42-62   read, Recency, Frequency/Monetary  *)
(*   AssignScores         lines 83-88   the three scores and RFM_Score     *)
(*   AssignSegments       lines 92-100  Value Segment, RFM Customer Segm.  *)
(*   Render               lines 103-220 the tables the charts are drawn of *)
(*   Clear                line 223      the file is removed again          *)
(* A ValueError raised outside create_rfm_score's try/except ends the run  *)
(* (pc = "aborted").                                                       *)
(*                                                                         *)
(* ScoreSpec: create_rfm_score (lines 70-80) called on its own, on every   *)
(* series of whole numbers up to the bounds and each of the label lists.   *)
(*                                                                         *)
(* Rows are complete transaction records (CustomerID, PurchaseDate,        *)
(* OrderID, TransactionAmount), as the file format of lines 20-39 asks.    *)
(* Dates are day numbers and amounts whole currency units.  Bin edges are  *)
(* exact rationals: quantile edges are kept multiplied by q, equal-width   *)
(* edges are compared after multiplying through by the number of bins.     *)
(* pandas computes them in binary floating point, which can differ in the  *)
(* last place for an edge that falls on a data value.                      *)
(***************************************************************************)
EXTENDS Integers, Sequences, FiniteSets, TLC

\* ------------------------------------------------------------------ bounds
MaxRows == 6
NumCustomers == 2
MaxDay == 4
MaxAmount == 2
MaxLen == 6
MaxValue == 4

\* ------------------------------------------------------- program constants
Q == 5
ValueQ == 3
recency_scores == <<5, 4, 3, 2, 1>>
frequency_scores == <<1, 2, 3, 4, 5>>
monetary_scores == <<1, 2, 3, 4, 5>>
segment_labels == <<"Low-Value", "Mid-Value", "High-Value">>

None == "None"
NoColumn == <<>>

VARIABLES csv, pc, now, uploaded_file, data, RecencyScore, FrequencyScore,
          MonetaryScore, RFM_Score, ValueSegment, CustomerSegments, errors,
          views, call_series, call_labels, call_scores, reported, spc

vars == <<csv, pc, now, uploaded_file, data, RecencyScore, FrequencyScore,
          MonetaryScore, RFM_Score, ValueSegment, CustomerSegments, errors,
          views, call_series, call_labels, call_scores, reported, spc>>

pipeline_vars == <<csv, pc, now, uploaded_file, data, RecencyScore, FrequencyScore,
                   MonetaryScore, RFM_Score, ValueSegment, CustomerSegments,
                   errors, views>>

call_vars == <<call_series, call_labels, call_scores, reported, spc>>

\* ----------------------------------------------------------------- helpers
Range(s) == {s[i] : i \in 1..Len(s)}

Min(a, b) == IF a < b THEN a ELSE b

SetMin(S) == CHOOSE x \in S : \A y \in S : x <= y

SetMax(S) == CHOOSE x \in S : \A y \in S : y <= x

Column(table, name) == [i \in 1..Len(table) |-> table[i][name]]

\* Series.nunique()
nunique(series) == Cardinality(Range(series))

\* ------------------------------------------------------------ input tables
\* A transaction record of the CSV file; OrderID is the row's own order.
Transaction(c, d, o, a) ==
    [CustomerID |-> c, PurchaseDate |-> d, OrderID |-> o, TransactionAmount |-> a]

RowKey(r) ==
    ((r.CustomerID - 1) * (MaxDay + 1) + r.PurchaseDate) * MaxAmount
        + (r.TransactionAmount - 1)

\* The records a row numbered o can hold.
Rows(o) ==
    {Transaction(c, d, o, a) :
        c \in 1..NumCustomers, d \in 0..MaxDay, a \in 1..MaxAmount}

\* The rows that extend table t keeping it in the order of RowKey: a table is
\* listed once up to the order of its rows (no statement of the script depends
\* on row order).
NextRows(t) ==
    {r \in Rows(Len(t) + 1) : t = <<>> \/ RowKey(t[Len(t)]) <= RowKey(r)}

\* -------------------------------------------------- lines 48-62: the merge
\* (pd.to_datetime(datetime.now()) - PurchaseDate).dt.days: PurchaseDate is a
\* midnight, so the whole days between it and any instant of day `today`.
Recency(today, purchase_date) == today - purchase_date

\* The rows of `table` of customer c.
GroupRows(table, c) == SelectSeq(table, LAMBDA row : row.CustomerID = c)

\* The group keys of groupby('CustomerID'): the CustomerIDs that occur, each
\* once, in ascending order.
RECURSIVE KeysFrom(_)
KeysFrom(S) ==
    IF S = {} THEN <<>>
    ELSE <<SetMin(S)>> \o KeysFrom(S \ {SetMin(S)})

GroupKeys(table) == KeysFrom(Range(Column(table, "CustomerID")))

\* frequency_data with nunique() of the purchase dates in place of count().
frequency_data_nunique(table) ==
    LET keys == GroupKeys(table)
    IN  [g \in 1..Len(keys) |->
            [CustomerID |-> keys[g],
             Frequency |-> Cardinality(Range(Column(GroupRows(table, keys[g]),
                                                    "PurchaseDate")))]]

\* frequency_data without the groupby: one row per transaction, counting it.
frequency_data_ungrouped(table) ==
    [i \in 1..Len(table) |->
        [CustomerID |-> table[i].CustomerID, Frequency |-> 1]]

\* Lines 55-56: data.groupby('CustomerID')['OrderID'].count().reset_index(),
\* renamed: one row per CustomerID that occurs, holding the number of its
\* rows (every row has an OrderID).
frequency_data(table) ==
    LET keys == GroupKeys(table)
    IN  [g \in 1..Len(keys) |->
            [CustomerID |-> keys[g],
             Frequency |-> Len(Column(GroupRows(table, keys[g]), "OrderID"))]]

RECURSIVE SumSeq(_)
SumSeq(s) == IF s = <<>> THEN 0 ELSE Head(s) + SumSeq(Tail(s))

\* Lines 57-58: data.groupby('CustomerID')['TransactionAmount'].sum()
\* .reset_index(), renamed.
monetary_data(table) ==
    LET keys == GroupKeys(table)
    IN  [g \in 1..Len(keys) |->
            [CustomerID |-> keys[g],
             MonetaryValue |->
                 SumSeq(Column(GroupRows(table, keys[g]), "TransactionAmount"))]]

\* A row with one more column.
WithColumn(row, name, value) ==
    [f \in DOMAIN row \cup {name} |-> IF f = name THEN value ELSE row[f]]

\* The value of a column on a left row that no right row matches.
NaN == "NaN"

\* left.merge(right, on='CustomerID', how='left'): the left rows in order,
\* each once per right row of its CustomerID, and once with a missing value
\* when no right row has it.
RECURSIVE merge_left(_, _, _)
merge_left(left, right, name) ==
    IF left = <<>> THEN <<>>
    ELSE LET row == Head(left)
             matches == SelectSeq(right,
                                  LAMBDA g : g.CustomerID = row.CustomerID)
         IN  (IF matches = <<>> THEN <<WithColumn(row, name, NaN)>>
              ELSE [k \in 1..Len(matches) |->
                       WithColumn(row, name, matches[k][name])])
             \o merge_left(Tail(left), right, name)

\* Lines 49-52.
WithRecency(table, today) ==
    [i \in 1..Len(table) |->
        WithColumn(table[i], "Recency", Recency(today, table[i].PurchaseDate))]

\* Lines 45-62.
LoadAndMerge(table, today) ==
    LET d0 == WithRecency(table, today)
        d1 == merge_left(d0, frequency_data(d0), "Frequency")
    IN  merge_left(d1, monetary_data(d0), "MonetaryValue")

\* ------------------------------------------------- pd.cut and pd.qcut
\* The outcome of a binning call: the labels per row, or a raised ValueError.
Binned(values) == [raised |-> FALSE, values |-> values]

ValueError == [raised |-> TRUE, values |-> <<>>]

Sorted(series) == SortSeq(series, LAMBDA x, y : x < y)

\* Ceiling of a / b for a >= 0, b > 0.
CeilDiv(a, b) == (a + b - 1) \div b

\* CutBin with the bins numbered from the highest one.
CutBin_FromTop(mn, mx, n, v) ==
    n + 1 - (IF mn = mx THEN (n + 1) \div 2
             ELSE IF v = mn THEN 1
             ELSE CeilDiv(n * (v - mn), mx - mn))

\* pd.cut(series, bins=n): the 1-based number of the equal-width bin of v in
\* a series of minimum mn and maximum mx.  The edges are mn + i * (mx - mn) / n,
\* the lowest one moved down by 0.1% of the range, and the bins are closed on
\* the right.  A constant series gets its range widened by 0.1% to both
\* sides, which leaves v in the middle.
CutBin(mn, mx, n, v) ==
    IF mn = mx THEN (n + 1) \div 2
    ELSE IF v = mn THEN 1
    ELSE CeilDiv(n * (v - mn), mx - mn)

\* cut without the widening of a constant series' range: no bin can be formed.
cut_no_widening(series, n, labels) ==
    IF n < 1 \/ Len(series) = 0 \/ Len(labels) # n THEN ValueError
    ELSE LET mn == SetMin(Range(series))
             mx == SetMax(Range(series))
         IN  IF mn = mx THEN ValueError
             ELSE Binned([i \in 1..Len(series) |->
                            labels[IF series[i] = mn THEN 1
                                   ELSE CeilDiv(n * (series[i] - mn), mx - mn)]])

\* pd.cut(series, bins=n, labels=labels): "`bins` should be a positive
\* integer." for n < 1, "Cannot cut empty array" for no rows, "Bin labels must
\* be one fewer than the number of bin edges" for a wrong number of labels.
cut(series, n, labels) ==
    IF n < 1 \/ Len(series) = 0 \/ Len(labels) # n THEN ValueError
    ELSE LET mn == SetMin(Range(series))
             mx == SetMax(Range(series))
         IN  Binned([i \in 1..Len(series) |->
                        labels[CutBin(mn, mx, n, series[i])]])

\* Series.quantile(k / q), times q: linear interpolation between the two
\* order statistics around position k * (N - 1) / q of the sorted series, in
\* exact arithmetic.
QuantileEdge(sorted, q, k) ==
    LET p == k * (Len(sorted) - 1)
        j == p \div q
        r == p % q
    IN  IF r = 0 THEN q * sorted[j + 1]
        ELSE q * sorted[j + 1] + r * (sorted[j + 2] - sorted[j + 1])

\* The edges of quantiles k/q .. q/q, times q, as a sequence.
RECURSIVE EdgesFrom(_, _, _)
EdgesFrom(sorted, q, k) ==
    IF k > q THEN <<>>
    ELSE <<QuantileEdge(sorted, q, k)>> \o EdgesFrom(sorted, q, k + 1)

\* The q + 1 bin edges of pd.qcut: edges[k + 1] is q times quantile k/q.
QuantileEdges(series, q) == EdgesFrom(Sorted(series), q, 0)

\* duplicates='raise': "Bin edges must be unique".
EdgesUnique(edges) == \A k \in 1..(Len(edges) - 1) : edges[k] < edges[k + 1]

\* The 1-based number of the quantile bin of v: bins are closed on the right
\* and the first one includes the lowest edge.
QcutBin(edges, q, v) == SetMin({k \in 1..q : q * v <= edges[k + 1]})

\* pd.qcut(series, q=q, labels=labels)
qcut(series, q, labels) ==
    IF Len(series) = 0 \/ Len(labels) # q THEN ValueError
    ELSE LET edges == QuantileEdges(series, q)
         IN  IF ~EdgesUnique(edges) THEN ValueError
             ELSE Binned([i \in 1..Len(series) |->
                            labels[QcutBin(edges, q, series[i])]])

\* ----------------------------------------- lines 70-80: create_rfm_score
\* score_labels[-n:] in place of score_labels[:n].
LastLabels(score_labels, n) ==
    SubSeq(score_labels, Len(score_labels) - Min(n, Len(score_labels)) + 1,
           Len(score_labels))

\* score_labels[:n]
FirstLabels(score_labels, n) == SubSeq(score_labels, 1, Min(n, Len(score_labels)))

\* pd.Series([0] * len(series))
ZeroScores(series) == [i \in 1..Len(series) |-> 0]

n_quantiles(series, q) == Min(q, nunique(series))

\* The binning call of the try block.
TryBinning(series, score_labels, q) ==
    LET n == n_quantiles(series, q)
    IN  IF n < q THEN cut(series, n, FirstLabels(score_labels, n))
        ELSE qcut(series, n, FirstLabels(score_labels, n))

\* create_rfm_score: the scores, and whether st.error reported a ValueError.
create_rfm_score(series, score_labels, q) ==
    LET b == TryBinning(series, score_labels, q)
    IN  IF b.raised THEN [raised |-> TRUE, values |-> ZeroScores(series)]
        ELSE b

\* ------------------------------------------------ lines 88-100: segments
\* SumScores with the frequency score added twice and no monetary score.
SumScores_NoMonetary(r, f, m) == r + f + f

\* Line 88.
SumScores(r, f, m) == r + f + m

\* BandMask with > 9 in place of >= 9.
BandMask_Strict(b, score) ==
    CASE b = 1 -> score > 9
      [] b = 2 -> score >= 6 /\ score < 9
      [] b = 3 -> score >= 5 /\ score < 6
      [] b = 4 -> score >= 4 /\ score < 5
      [] b = 5 -> score < 4

\* Lines 96-100: the mask and the label of the b-th .loc assignment.
BandMask(b, score) ==
    CASE b = 1 -> score >= 9
      [] b = 2 -> score >= 6 /\ score < 9
      [] b = 3 -> score >= 5 /\ score < 6
      [] b = 4 -> score >= 4 /\ score < 5
      [] b = 5 -> score < 4

BandLabel(b) ==
    CASE b = 1 -> "Champions"
      [] b = 2 -> "Potential Loyalists"
      [] b = 3 -> "At Risk Customers"
      [] b = 4 -> "Can't Lose"
      [] b = 5 -> "Lost"

Bands == <<1, 2, 3, 4, 5>>

\* The .loc assignments `order`, applied one after the other to a label: each
\* overwrites the label where its mask holds.
RECURSIVE ApplyBands(_, _, _)
ApplyBands(label, order, score) ==
    IF order = <<>> THEN label
    ELSE ApplyBands(IF BandMask(Head(order), score) THEN BandLabel(Head(order))
                    ELSE label,
                    Tail(order), score)

\* Lines 95-100: the label starts empty (line 95) and the five assignments
\* are applied in the order of the script.
CustomerSegment(score) == ApplyBands("", Bands, score)

\* Line 92: pd.qcut(data['RFM_Score'], q=3, labels=segment_labels).
value_segment(rfm_score) == qcut(rfm_score, ValueQ, segment_labels)

\* Lines 106-107: data['Value Segment'].value_counts()
segment_counts(value_segment_column) ==
    [l \in Range(segment_labels) |->
        Cardinality({i \in 1..Len(value_segment_column) :
                        value_segment_column[i] = l})]

\* Line 146: the rows of the Champions segment.
champions_segment(customer_segments) ==
    {i \in 1..Len(customer_segments) : customer_segments[i] = "Champions"}

\* ------------------------------------------------------------------ state
\* The instants at which the script can run: the day of the latest purchase
\* date a file can hold (no purchase lies in the future).
Today == {MaxDay}

\* No file has been uploaded (line 223).
NoFile ==
    /\ csv = <<>>
    /\ now \in Today
    /\ uploaded_file = None
    /\ data = NoColumn
    /\ RecencyScore = NoColumn
    /\ FrequencyScore = NoColumn
    /\ MonetaryScore = NoColumn
    /\ RFM_Score = NoColumn
    /\ ValueSegment = NoColumn
    /\ CustomerSegments = NoColumn
    /\ errors = {}
    /\ views = None

\* No call of create_rfm_score on its own is under way.
NoCall ==
    /\ call_series = <<>>
    /\ call_labels = <<>>
    /\ call_scores = NoColumn
    /\ reported = FALSE

Init == NoFile /\ pc = "idle" /\ NoCall /\ spc = "off"

\* The user's CSV file gets one more transaction record.  A file that holds
\* only the header line is the table of no rows.
AddRow ==
    /\ pc = "idle"
    /\ Len(csv) < MaxRows
    /\ \E r \in NextRows(csv) : csv' = Append(csv, r)
    /\ UNCHANGED <<pc, now, uploaded_file, data, RecencyScore, FrequencyScore,
                   MonetaryScore, RFM_Score, ValueSegment, CustomerSegments,
                   errors, views, call_vars>>

\* Lines 42-62: the file is uploaded, read, and the aggregates are merged in.
Upload ==
    /\ pc = "idle"
    /\ uploaded_file' = csv
    /\ data' = LoadAndMerge(csv, now)
    /\ pc' = "merged"
    /\ UNCHANGED <<csv, now, RecencyScore, FrequencyScore, MonetaryScore, RFM_Score,
                   ValueSegment, CustomerSegments, errors, views, call_vars>>

\* Lines 83-88: the three scores and their sum.
AssignScores ==
    /\ pc = "merged"
    /\ LET r == create_rfm_score(Column(data, "Recency"), recency_scores, Q)
           f == create_rfm_score(Column(data, "Frequency"), frequency_scores, Q)
           m == create_rfm_score(Column(data, "MonetaryValue"), monetary_scores, Q)
       IN  /\ RecencyScore' = r.values
           /\ FrequencyScore' = f.values
           /\ MonetaryScore' = m.values
           /\ errors' = {"Recency" : x \in {r.raised} \ {FALSE}}
                          \cup {"Frequency" : x \in {f.raised} \ {FALSE}}
                          \cup {"MonetaryValue" : x \in {m.raised} \ {FALSE}}
           /\ RFM_Score' = [i \in 1..Len(data) |->
                               SumScores(r.values[i], f.values[i], m.values[i])]
    /\ pc' = "scored"
    /\ UNCHANGED <<csv, now, uploaded_file, data, ValueSegment, CustomerSegments,
                   views, call_vars>>

\* Lines 92-100: Value Segment, then RFM Customer Segments.  The qcut of line
\* 92 is outside any try: its ValueError ends the run.
AssignSegments ==
    /\ pc = "scored"
    /\ LET v == value_segment(RFM_Score)
       IN  IF v.raised
           THEN /\ pc' = "aborted"
                /\ UNCHANGED <<ValueSegment, CustomerSegments>>
           ELSE /\ ValueSegment' = v.values
                /\ CustomerSegments' =
                       [i \in 1..Len(data) |-> CustomerSegment(RFM_Score[i])]
                /\ pc' = "segmented"
    /\ UNCHANGED <<csv, now, uploaded_file, data, RecencyScore, FrequencyScore,
                   MonetaryScore, RFM_Score, errors, views, call_vars>>

\* Lines 103-220: the tables the charts are drawn of.
Render ==
    /\ pc = "segmented"
    /\ views' = [segment_counts |-> segment_counts(ValueSegment),
                 champions_segment |-> champions_segment(CustomerSegments)]
    /\ pc' = "rendered"
    /\ UNCHANGED <<csv, now, uploaded_file, data, RecencyScore, FrequencyScore,
                   MonetaryScore, RFM_Score, ValueSegment, CustomerSegments, errors,
                   call_vars>>

\* The file is removed: the script runs again with no file (line 223) and
\* nothing of the last run is kept.
Clear ==
    /\ pc \in {"rendered", "aborted"}
    /\ pc' = "idle"
    /\ uploaded_file' = None
    /\ data' = NoColumn
    /\ RecencyScore' = NoColumn
    /\ FrequencyScore' = NoColumn
    /\ MonetaryScore' = NoColumn
    /\ RFM_Score' = NoColumn
    /\ ValueSegment' = NoColumn
    /\ CustomerSegments' = NoColumn
    /\ errors' = {}
    /\ views' = None
    /\ UNCHANGED <<csv, now, call_vars>>

Next ==
    \/ AddRow
    \/ Upload
    \/ AssignScores
    \/ AssignSegments
    \/ Render
    \/ Clear

Spec == Init /\ [][Next]_vars

\* ------------------------------------------------------ the run's claims
\* The states in which the table has been read and merged.
Loaded == pc \in {"merged", "scored", "segmented", "rendered", "aborted"}

\* The states in which the scores have been assigned.
Scored == pc \in {"scored", "segmented", "rendered", "aborted"}

\* The states in which the segments have been assigned.
Segmented == pc \in {"segmented", "rendered"}

\* The columns of the uploaded file.
InputColumns == {"CustomerID", "PurchaseDate", "OrderID", "TransactionAmount"}

InputOf(row) == [f \in InputColumns |-> row[f]]

RowsOf(table, c) == {j \in 1..Len(table) : table[j].CustomerID = c}

RECURSIVE SumOver(_, _)
SumOver(table, J) ==
    IF J = {} THEN 0
    ELSE LET j == CHOOSE x \in J : TRUE
         IN  table[j].TransactionAmount + SumOver(table, J \ {j})

\* C1: the merged table has as many rows as the uploaded one, output row i is
\* input row i with columns added, and every input row is the origin of
\* exactly one output row and every output row of exactly one input row.
C1_RowsPreserved ==
    Loaded =>
        /\ Len(data) = Len(uploaded_file)
        /\ \A i \in 1..Len(data) :
            /\ InputOf(data[i]) = uploaded_file[i]
            /\ Cardinality({j \in 1..Len(uploaded_file) :
                               uploaded_file[j] = InputOf(data[i])}) = 1
        /\ \A j \in 1..Len(uploaded_file) :
            Cardinality({i \in 1..Len(data) :
                            InputOf(data[i]) = uploaded_file[j]}) = 1

\* C1 witness: a merged table of three or more rows, two of one customer.
C1_Witness ==
    /\ pc = "merged"
    /\ Len(data) >= 3
    /\ \E i, j \in 1..Len(data) : i # j /\ data[i].CustomerID = data[j].CustomerID
    /\ \E i, j \in 1..Len(data) : data[i].CustomerID # data[j].CustomerID

\* C2: on every output row, Frequency is the number of input rows of the
\* row's customer and MonetaryValue the sum of their amounts, so two rows of
\* one customer carry the same Frequency and the same MonetaryValue.
C2_Aggregates ==
    Loaded =>
        /\ \A i \in 1..Len(data) :
            LET J == RowsOf(uploaded_file, data[i].CustomerID)
            IN  /\ data[i].Frequency = Cardinality(J)
                /\ data[i].MonetaryValue = SumOver(uploaded_file, J)
        /\ \A i, j \in 1..Len(data) :
            data[i].CustomerID = data[j].CustomerID =>
                /\ data[i].Frequency = data[j].Frequency
                /\ data[i].MonetaryValue = data[j].MonetaryValue

\* C2 witness: a customer with three rows of unequal amounts, two of them of
\* one day, beside another customer.
C2_Witness ==
    /\ pc = "merged"
    /\ \E i, j, k \in 1..Len(data) :
        /\ i < j /\ j < k
        /\ data[i].CustomerID = data[j].CustomerID
        /\ data[j].CustomerID = data[k].CustomerID
        /\ data[i].PurchaseDate = data[j].PurchaseDate
        /\ data[i].TransactionAmount # data[j].TransactionAmount
        /\ data[k].Frequency = 3
        /\ data[k].MonetaryValue > 3
    /\ \E i, j \in 1..Len(data) : data[i].Frequency # data[j].Frequency

\* C3: RFM_Score is the sum of the three scores on every row; it lies between
\* the sum of the columns' minima and the sum of their maxima, in 3..15 when
\* every component is in 1..5 and in 0..15 with zero fallback columns.
C3_ScoreSum ==
    Scored =>
        \A i \in 1..Len(data) :
            /\ RFM_Score[i] = RecencyScore[i] + FrequencyScore[i] + MonetaryScore[i]
            /\ RFM_Score[i] >= SetMin(Range(RecencyScore))
                                + SetMin(Range(FrequencyScore))
                                + SetMin(Range(MonetaryScore))
            /\ RFM_Score[i] <= SetMax(Range(RecencyScore))
                                + SetMax(Range(FrequencyScore))
                                + SetMax(Range(MonetaryScore))
            /\ RFM_Score[i] \in 0..15
            /\ ({RecencyScore[i], FrequencyScore[i], MonetaryScore[i]} \subseteq 1..5
                  => RFM_Score[i] \in 3..15)

\* C3 witness: scored rows one of whose components is the zero fallback while
\* the other two are scores of 1..5.
C3_Witness ==
    /\ pc = "scored"
    /\ "Recency" \in errors
    /\ \E i \in 1..Len(data) :
        /\ RecencyScore[i] = 0
        /\ FrequencyScore[i] \in 1..5
        /\ MonetaryScore[i] \in 1..5
        /\ RFM_Score[i] = FrequencyScore[i] + MonetaryScore[i]

\* The band table: the label of a score.
BandOf(score) ==
    IF score >= 9 THEN "Champions"
    ELSE IF score >= 6 THEN "Potential Loyalists"
    ELSE IF score = 5 THEN "At Risk Customers"
    ELSE IF score = 4 THEN "Can't Lose"
    ELSE "Lost"

Reverse(s) == [i \in 1..Len(s) |-> s[Len(s) + 1 - i]]

\* C4: RFM Customer Segments is the band table applied to RFM_Score; exactly
\* one of the five masks holds for a score, so no row keeps the empty label
\* and the assignments give the same label in the opposite order.
C4_BandTable ==
    Segmented =>
        \A i \in 1..Len(data) :
            /\ CustomerSegments[i] = BandOf(RFM_Score[i])
            /\ CustomerSegments[i] # ""
            /\ Cardinality({b \in Range(Bands) : BandMask(b, RFM_Score[i])}) = 1
            /\ ApplyBands("", Reverse(Bands), RFM_Score[i]) = CustomerSegments[i]

\* C4 witness: a segmented table with a row on the lower edge of Champions
\* and a row below it in another band.
C4_Witness ==
    /\ pc = "segmented"
    /\ \E i, j \in 1..Len(data) :
        /\ RFM_Score[i] = 9
        /\ CustomerSegments[i] = "Champions"
        /\ RFM_Score[j] < 9
        /\ CustomerSegments[j] # "Champions"

\* C6: if binning raised for a metric, its score column is 0 on every row and
\* the run is not ended by it: every row of the table still gets its other
\* scores, RFM_Score, Value Segment and RFM Customer Segments.
C6_NoCascade ==
    (Scored /\ errors # {}) =>
        \A i \in 1..Len(data) :
            /\ "Recency" \in errors => RecencyScore[i] = 0
            /\ "Frequency" \in errors => FrequencyScore[i] = 0
            /\ "MonetaryValue" \in errors => MonetaryScore[i] = 0
            /\ pc # "aborted"

SegmentRank(label) == CHOOSE k \in 1..Len(segment_labels) : segment_labels[k] = label

\* C9: once the scores are computed, every row gets one of the three Value
\* Segments (the step never ends the run of a table that has rows), in
\* ascending order of RFM_Score.
C9_ValueSegmentTotal ==
    /\ pc = "aborted" => Len(data) = 0
    /\ Segmented =>
        /\ \A i \in 1..Len(data) : ValueSegment[i] \in Range(segment_labels)
        /\ \A i, j \in 1..Len(data) :
            RFM_Score[i] <= RFM_Score[j] =>
                SegmentRank(ValueSegment[i]) <= SegmentRank(ValueSegment[j])

\* ------------------------------- create_rfm_score called on its own
\* A series of whole numbers is built value by value and then scored with
\* one of the three label lists of lines 65-67.
ScoreInit == NoFile /\ pc = "off" /\ NoCall /\ spc = "building"

Extend ==
    /\ spc = "building"
    /\ Len(call_series) < MaxLen
    /\ \E v \in 0..MaxValue : call_series' = Append(call_series, v)
    /\ UNCHANGED <<call_labels, call_scores, reported, spc, pipeline_vars>>

\* Lines 70-80 on the series.
Score ==
    /\ spc = "building"
    /\ \E labels \in {recency_scores, frequency_scores, monetary_scores} :
        LET s == create_rfm_score(call_series, labels, Q)
        IN  /\ call_labels' = labels
            /\ call_scores' = s.values
            /\ reported' = s.raised
    /\ spc' = "scored"
    /\ UNCHANGED <<call_series, pipeline_vars>>

ScoreNext == Extend \/ Score

ScoreSpec == ScoreInit /\ [][ScoreNext]_vars

\* ------------------------------------------- create_rfm_score's claims
\* The number of distinct values of the scored series.
U == Cardinality(Range(call_series))

Descending == call_labels = recency_scores

\* C5 as stated: a series of u < 5 distinct values gets exactly u distinct
\* score labels.
C5_ExactlyULabels ==
    (spc = "scored" /\ U < Q) => Cardinality(Range(call_scores)) = U

\* C5 as amended: a series of u < 5 distinct values is cut into u equal-width
\* buckets with the first u labels and gets at most u distinct score labels,
\* all among the first u labels; its lowest value gets the first label and
\* its highest the u-th.
C5_AtMostULabels ==
    (spc = "scored" /\ U < Q) =>
        /\ Range(call_scores) \subseteq Range(SubSeq(call_labels, 1, U))
        /\ Cardinality(Range(call_scores)) <= U
        /\ LET mn == SetMin(Range(call_series))
               mx == SetMax(Range(call_series))
           IN  \A i \in 1..Len(call_series) :
                   /\ call_series[i] = mn => call_scores[i] = call_labels[1]
                   /\ call_series[i] = mx => call_scores[i] = call_labels[U]

\* C5 witness: three distinct values, unevenly spread, that get two labels.
C5_Witness ==
    /\ spc = "scored"
    /\ U = 3
    /\ ~reported
    /\ Cardinality(Range(call_scores)) = 2

\* C7: a series of u >= 5 distinct values is split into 5 quantile buckets:
\* every row gets a score of 1..5 and never the zero fallback.
C7_QuantileScores ==
    (spc = "scored" /\ U >= Q) =>
        /\ ~reported
        /\ \A i \in 1..Len(call_series) : call_scores[i] \in 1..5

C10_ConstantOrEmptyFails ==
    (spc = "scored" /\ U <= 1) =>
        /\ reported
        /\ \A i \in 1..Len(call_series) : call_scores[i] = 0

\* C10 as amended: binning an empty series fails, the error is reported and
\* the score column returned is the (empty) column of zeros; a constant
\* series of one or more rows does not fail: it is one equal-width bucket and
\* every row gets the first label.
C10_EmptyFailsConstantScores ==
    spc = "scored" =>
        /\ U = 0 => reported /\ call_scores = <<>>
        /\ U = 1 =>
            /\ ~reported
            /\ Len(call_scores) = Len(call_series)
            /\ \A i \in 1..Len(call_series) : call_scores[i] = call_labels[1]

\* C10 witness: a constant series of several rows, scored.
C10_Witness ==
    /\ spc = "scored"
    /\ U = 1
    /\ Len(call_series) >= 2
    /\ ~reported
    /\ call_scores[1] = 5

====
